---- MODULE Spec2Model ----
(***************************************************************************)
(* A model of the EEE Helper CLI calculator (main.c, funcs.c).             *)
(*                                                                         *)
(* Text is a sequence of one-character strings.  A long is a sign and a    *)
(* magnitude in four 16-bit limbs, so that strtol's range check and the    *)
(* (int) conversion keep their width.  A double is a decimal floating      *)
(* value with the IEEE special values (see the arithmetic section).        *)
(***************************************************************************)
EXTENDS Integers, Sequences, FiniteSets, TLC

VARIABLES
    longBits,   \* width of long in this build: 64 (LP64) or 32 (LLP64, ILP32)
    arg,        \* argument of the pure function under test (function specs)
    res,        \* its result
    pc,         \* where main() is: "menu", "select", "value", "back", "exit"
    sel,        \* selections made inside the running module: <<module, group/mode...>>
    vals,       \* values read so far by the running variant
    out,        \* what the last step printed (printf calls, in order)
    eee_log,    \* eee_log.txt, a record per line; <<>> while the file is absent
    logFile,    \* whether eee_log.txt exists
    status,     \* process exit status, -1 while running
    avail,      \* lines left on stdin before end-of-input
    lastLine,   \* what the last fgets returned: the line, or EOF
    ret,        \* what the last input helper did: [fn, st, v: the int, d: the double]
    ops         \* arithmetic events of the last step: divisions, logarithms

vars == <<longBits, arg, res, pc, sel, vals, out, eee_log, logFile, status, avail,
          lastLine, ret, ops>>

\* ------------------------------------------------------------------ text

\* the one element of a singleton set: Only({e(x) : x \in {v}}) is e(v), v computed once
Only(S) == CHOOSE x \in S : TRUE

Digits == {"0", "1", "2", "3", "4", "5", "6", "7", "8", "9"}

DigitVal(c) ==
    CASE c = "0" -> 0 [] c = "1" -> 1 [] c = "2" -> 2 [] c = "3" -> 3
      [] c = "4" -> 4 [] c = "5" -> 5 [] c = "6" -> 6 [] c = "7" -> 7
      [] c = "8" -> 8 [] c = "9" -> 9

\* isspace() in the "C" locale (the vertical tab cannot be written in TLA+)
isspace(c) == c \in {" ", "\t", "\n", "\r", "\f"}

\* s[i], or the terminating NUL (written "") at and past the end
At(s, i) == IF i >= 1 /\ i <= Len(s) THEN s[i] ELSE ""

\* first index >= i whose character is not in set cs
RECURSIVE SkipSet(_, _, _)
SkipSet(s, i, cs) == IF At(s, i) \in cs THEN SkipSet(s, i + 1, cs) ELSE i

\* first index >= i that is not white space
RECURSIVE SkipSpace(_, _)
SkipSpace(s, i) == IF At(s, i) # "" /\ isspace(At(s, i)) THEN SkipSpace(s, i + 1) ELSE i

\* strcspn(s, "\r\n"): length of the prefix holding neither character
RECURSIVE strcspn_crlf(_, _)
strcspn_crlf(s, i) ==
    IF i > Len(s) \/ s[i] \in {"\r", "\n"} THEN i - 1 ELSE strcspn_crlf(s, i + 1)

\* s[strcspn(s, "\r\n")] = '\0'
trim_newline(s) == SubSeq(s, 1, strcspn_crlf(s, 1))

\* ------------------------------------------------------------------ long

LimbBase == 2 ^ 16
HalfBase == 2 ^ 15

ZeroMag == <<0, 0, 0, 0>>

\* mag * 10 + d over the four limbs; c is the carry out of the top limb
MulAdd10(mag, d) ==
    LET t0 == mag[1] * 10 + d
        t1 == mag[2] * 10 + (t0 \div LimbBase)
        t2 == mag[3] * 10 + (t1 \div LimbBase)
        t3 == mag[4] * 10 + (t2 \div LimbBase)
    IN  [m |-> <<t0 % LimbBase, t1 % LimbBase, t2 % LimbBase, t3 % LimbBase>>,
         c |-> t3 \div LimbBase]

\* whether a magnitude with this sign is a value of a long of `bits` bits
InLongRange(neg, mag, bits) ==
    LET top == IF bits = 64 THEN mag[4] ELSE mag[2]
        low == IF bits = 64 THEN mag[1] = 0 /\ mag[2] = 0 /\ mag[3] = 0
                             ELSE mag[1] = 0
        fits == bits = 64 \/ (mag[3] = 0 /\ mag[4] = 0)
    IN  fits /\ (top < HalfBase \/ (neg /\ top = HalfBase /\ low))

\* the digits from index i on: [m: magnitude, ovf: left 64 bits, end: index after]
RECURSIVE AccDigits(_, _, _, _)
AccDigits(s, i, mag, ovf) ==
    IF At(s, i) \in Digits
    THEN Only({AccDigits(s, i + 1, r.m, ovf \/ r.c # 0) :
               r \in {MulAdd10(mag, DigitVal(s[i]))}})
    ELSE [m |-> mag, ovf |-> ovf, end |-> i]

\* strtol, on the digits d = [m, ovf, end] read from index i1
strtol_end(neg, i1, d, bits) ==
    IF d.end = i1
    THEN [end |-> 0, neg |-> FALSE, mag |-> ZeroMag, erange |-> FALSE]
    ELSE [end |-> d.end - 1, neg |-> neg, mag |-> d.m,
          erange |-> d.ovf \/ ~InLongRange(neg, d.m, bits)]

\* strtol, from index i0 after white space: a sign, then the digits
strtol_sign(s, i0, i1, bits) ==
    strtol_end(At(s, i0) = "-", i1, AccDigits(s, i1, ZeroMag, FALSE), bits)

\* strtol(s, &end, 10): [end, neg, mag, erange]; end is the count of characters
\* consumed (0: end == s); erange: errno is ERANGE
strtol(s, bits) ==
    strtol_sign(s, SkipSpace(s, 1),
                SkipSpace(s, 1) + (IF At(s, SkipSpace(s, 1)) \in {"+", "-"} THEN 1 ELSE 0),
                bits)

\* (int)v for a long v: the low 32 bits, read as a signed int
IntOfLong(neg, mag) ==
    LET h == IF ~neg THEN mag[2]
             ELSE IF mag[1] = 0 THEN (LimbBase - mag[2]) % LimbBase
                  ELSE LimbBase - 1 - mag[2]
        l == IF ~neg \/ mag[1] = 0 THEN mag[1] ELSE LimbBase - mag[1]
    IN  IF h >= HalfBase THEN (h - LimbBase) * LimbBase + l ELSE h * LimbBase + l

\* whether the long's value is a value of int
InIntRange(neg, mag) == InLongRange(neg, mag, 32)

\* the rest of parse_long, on strtol's result r
parse_long_end(s, r) ==
    IF r.erange THEN [ok |-> FALSE, neg |-> FALSE, mag |-> ZeroMag]
    ELSE IF r.end = 0 THEN [ok |-> FALSE, neg |-> FALSE, mag |-> ZeroMag]
    ELSE IF At(s, SkipSet(s, r.end + 1, {" ", "\t"})) # ""
         THEN [ok |-> FALSE, neg |-> FALSE, mag |-> ZeroMag]
    ELSE [ok |-> TRUE, neg |-> r.neg, mag |-> r.mag]

\* parse_long(s, &v, 10): [ok, neg, mag]
parse_long(s, bits) ==
    IF s = <<>> THEN [ok |-> FALSE, neg |-> FALSE, mag |-> ZeroMag]
    ELSE parse_long_end(s, strtol(s, bits))

\* ---------------------------------------------------------------- double
\* A double is [k, s, m, e]: k = "fin" is the value s * m * 10^e with m kept
\* to SigDigits significant digits and without trailing zeros (zero is m = 0,
\* e = 0, unsigned); k = "inf" is s * infinity; k = "nan" is a NaN.  Results
\* are truncated toward zero, over the range of an IEEE binary64.

\* significant decimal digits kept in a mantissa
SigDigits == 4

\* The limits of a double, each as the four leading digits and the decimal order
\* (digits before the point) of its value.
\* DBL_MAX, 1.797...e308: a magnitude above it is infinite
DBL_MAX == [lead |-> 1797, order |-> 309]
\* DBL_MIN, 2.225...e-308, the least normal double: strtod reports ERANGE below it
DBL_MIN == [lead |-> 2225, order |-> -307]
\* half of the least double, 4.94...e-324: a magnitude below it is zero
DBL_ZERO == [lead |-> 2470, order |-> -323]

Fin(sg, m, e) == [k |-> "fin", s |-> sg, m |-> m, e |-> e]
Zero == Fin(1, 0, 0)
NaN == [k |-> "nan", s |-> 1, m |-> 0, e |-> 0]
Inf(sg) == [k |-> "inf", s |-> sg, m |-> 0, e |-> 0]

Pow10(n) == 10 ^ n
SignOf(t) == IF t < 0 THEN -1 ELSE 1
Abs(t) == IF t < 0 THEN -t ELSE t

RECURSIVE NumDigits(_)
NumDigits(m) == IF m < 10 THEN 1 ELSE 1 + NumDigits(m \div 10)

\* the four leading digits of a mantissa m > 0
RECURSIVE Lead4(_)
Lead4(m) ==
    IF m >= 10000 THEN Lead4(m \div 10) ELSE IF m < 1000 THEN Lead4(m * 10) ELSE m

\* whether mantissa m > 0 of decimal order ord is above, or below, limit lim
Above(m, ord, lim) == ord > lim.order \/ (ord = lim.order /\ Lead4(m) > lim.lead)
Below(m, ord, lim) == ord < lim.order \/ (ord = lim.order /\ Lead4(m) < lim.lead)

\* sg * m * 10^e of decimal order ord, within the range of a double
InRange(sg, m, e, ord) ==
    IF Above(m, ord, DBL_MAX) THEN Inf(sg)
    ELSE IF Below(m, ord, DBL_ZERO) THEN Zero
    ELSE Fin(sg, m, e)

\* the double nearest toward zero to sg * m * 10^e, for m >= 0
RECURSIVE Round(_, _, _)
Round(sg, m, e) ==
    IF m = 0 THEN Zero
    ELSE IF m >= Pow10(SigDigits) \/ m % 10 = 0 THEN Round(sg, m \div 10, e + 1)
    ELSE InRange(sg, m, e, NumDigits(m) + e)

\* m * 10^e as a double, m an integer of any sign
Lit(m, e) == Round(SignOf(m), Abs(m), e)

IsNaN(x) == x.k = "nan"
IsInf(x) == x.k = "inf"
IsFinite(x) == x.k = "fin"
IsZero(x) == x.k = "fin" /\ x.m = 0

Sgn(x) == IF IsZero(x) THEN 0 ELSE x.s
Order(x) == IF x.k = "inf" THEN 100000 ELSE NumDigits(x.m) + x.e
Aligned(x) == IF x.k = "inf" THEN 0 ELSE x.m * Pow10(SigDigits - NumDigits(x.m))
CmpInt(a, b) == IF a < b THEN -1 ELSE IF a > b THEN 1 ELSE 0

\* -1, 0, 1 as x is below, equal to or above y; neither is a NaN
Cmp(x, y) ==
    IF Sgn(x) # Sgn(y) THEN CmpInt(Sgn(x), Sgn(y))
    ELSE IF Order(x) # Order(y) THEN Sgn(x) * CmpInt(Order(x), Order(y))
    ELSE Sgn(x) * CmpInt(Aligned(x), Aligned(y))

\* the C comparisons: every one is false when an operand is a NaN
Lt(x, y) == ~IsNaN(x) /\ ~IsNaN(y) /\ Cmp(x, y) < 0
Le(x, y) == ~IsNaN(x) /\ ~IsNaN(y) /\ Cmp(x, y) <= 0
Ge(x, y) == ~IsNaN(x) /\ ~IsNaN(y) /\ Cmp(x, y) >= 0
Eq(x, y) == ~IsNaN(x) /\ ~IsNaN(y) /\ Cmp(x, y) = 0

Neg(x) == IF IsNaN(x) \/ IsZero(x) THEN x ELSE [x EXCEPT !.s = -x.s]
fabs(x) == IF IsNaN(x) THEN x ELSE [x EXCEPT !.s = 1]

\* the product of mantissas as q * 1000 + r
MulParts(sg, q, r, e) ==
    IF q >= Pow10(SigDigits) THEN Round(sg, q, e + 3) ELSE Round(sg, q * 1000 + r, e)

\* x * y
Mul(x, y) ==
    IF IsNaN(x) \/ IsNaN(y) THEN NaN
    ELSE IF IsInf(x) \/ IsInf(y)
         THEN (IF IsZero(x) \/ IsZero(y) THEN NaN ELSE Inf(x.s * y.s))
    ELSE MulParts(x.s * y.s,
                  x.m * (y.m \div 1000) + (x.m * (y.m % 1000)) \div 1000,
                  (x.m * (y.m % 1000)) % 1000,
                  x.e + y.e)

\* mantissa m moved down by `down` decimal places (up when negative)
Shift(m, down) ==
    IF down > 8 THEN 0
    ELSE IF down >= 0 THEN m \div Pow10(down)
    ELSE m * Pow10(-down)

AddSum(t, e) == Round(SignOf(t), Abs(t), e)

\* big + small with big's mantissa moved up by `up` places: eight digits are kept
AddShift(big, small, up) ==
    AddSum(big.s * big.m * Pow10(up) + small.s * Shift(small.m, big.e - small.e - up),
           big.e - up)

\* big + small, finite and not zero, big of the higher order
AddTo(big, small) ==
    AddShift(big, small,
             IF big.e - small.e <= 0 THEN 0
             ELSE IF big.e - small.e < 8 - NumDigits(big.m) THEN big.e - small.e
             ELSE 8 - NumDigits(big.m))

\* x + y
Add(x, y) ==
    IF IsNaN(x) \/ IsNaN(y) THEN NaN
    ELSE IF IsInf(x) /\ IsInf(y) THEN (IF x.s = y.s THEN x ELSE NaN)
    ELSE IF IsInf(x) THEN x
    ELSE IF IsInf(y) THEN y
    ELSE IF IsZero(x) THEN y
    ELSE IF IsZero(y) THEN x
    ELSE IF Order(x) >= Order(y) THEN AddTo(x, y)
    ELSE AddTo(y, x)

Sub(x, y) == Add(x, Neg(y))

\* the digits of r / d after the integer part q, to SigDigits + 1 digits in all
RECURSIVE DivDigits(_, _, _, _)
DivDigits(q, r, d, e) ==
    IF r = 0 \/ q >= Pow10(SigDigits)
    THEN <<q, e>>
    ELSE DivDigits(q * 10 + (r * 10) \div d, (r * 10) % d, d, e - 1)

DivRound(sg, qe) == Round(sg, qe[1], qe[2])

\* x / y, the machine division: x / 0 is an infinity, 0 / 0 a NaN
Div(x, y) ==
    IF IsNaN(x) \/ IsNaN(y) THEN NaN
    ELSE IF IsInf(x) THEN (IF IsInf(y) THEN NaN ELSE Inf(x.s * y.s))
    ELSE IF IsInf(y) THEN Zero
    ELSE IF IsZero(y) THEN (IF IsZero(x) THEN NaN ELSE Inf(x.s))
    ELSE DivRound(x.s * y.s, DivDigits(x.m \div y.m, x.m % y.m, y.m, x.e - y.e))

ISqrtStep(n, r) == IF (r + 1) * (r + 1) <= n THEN r + 1 ELSE r

\* floor of the square root of n >= 0
RECURSIVE ISqrt(_)
ISqrt(n) ==
    IF n < 4 THEN (IF n = 0 THEN 0 ELSE 1) ELSE ISqrtStep(n, 2 * ISqrt(n \div 4))

\* the root of m * 10^e, e even, with m scaled up by 10^(2j)
SqrtScaled(m, e, j) == Round(1, ISqrt(m * Pow10(2 * j)), (e - 2 * j) \div 2)

SqrtEven(m, e) == SqrtScaled(m, e, (8 - NumDigits(m)) \div 2)

\* sqrt(x) of <math.h>
sqrt(x) ==
    IF IsNaN(x) THEN NaN
    ELSE IF IsZero(x) THEN Zero
    ELSE IF x.s < 0 THEN NaN
    ELSE IF IsInf(x) THEN x
    ELSE IF x.e % 2 # 0 THEN SqrtEven(x.m * 10, x.e - 1)
    ELSE SqrtEven(x.m, x.e)

One == Fin(1, 1, 0)
Two == Fin(1, 2, 0)
Three == Fin(1, 3, 0)
Six == Fin(1, 6, 0)
Half == Fin(1, 5, -1)
Ln2 == Fin(1, 6931, -4)
Ln10 == Fin(1, 2303, -3)

\* 2 (y + y^3 / 3)
LnSeries(y) == Mul(Two, Add(y, Div(Mul(y, Mul(y, y)), Three)))

\* ln f for f near 1: the series in y = (f - 1) / (f + 1)
LnNearOne(f) == LnSeries(Div(Sub(f, One), Add(f, One)))

\* ln f for f in [1, 10): halve down to 1.5, then the series
RECURSIVE LnReduced(_)
LnReduced(f) ==
    IF Le(f, Fin(1, 15, -1)) THEN LnNearOne(f)
    ELSE Add(Ln2, LnReduced(Mul(f, Half)))

\* log(x) of <math.h>, the natural logarithm
log(x) ==
    IF IsNaN(x) THEN NaN
    ELSE IF IsZero(x) THEN Inf(-1)
    ELSE IF x.s < 0 THEN NaN
    ELSE IF IsInf(x) THEN x
    ELSE IF Ge(x, Half) /\ Le(x, Fin(1, 15, -1)) THEN LnNearOne(x)
    ELSE Add(Mul(Lit(NumDigits(x.m) + x.e - 1, 0), Ln10),
             LnReduced(Fin(1, x.m, 1 - NumDigits(x.m))))

ExpSquare(h) == Mul(h, h)

\* e^x for finite x: the cubic near zero, squared up from x / 2
RECURSIVE ExpFinite(_)
ExpFinite(x) ==
    IF Le(fabs(x), Fin(1, 125, -3))
    THEN Add(One, Add(x, Add(Mul(Half, Mul(x, x)), Div(Mul(x, Mul(x, x)), Six))))
    ELSE ExpSquare(ExpFinite(Mul(x, Half)))

\* exp(x) of <math.h>: overflows above 709.7, underflows to zero below -745.1
exp(x) ==
    IF IsNaN(x) THEN NaN
    ELSE IF IsInf(x) THEN (IF x.s > 0 THEN x ELSE Zero)
    ELSE IF Lt(Fin(1, 7097, -1), x) THEN Inf(1)
    ELSE IF Lt(x, Fin(-1, 7451, -1)) THEN Zero
    ELSE ExpFinite(x)

\* ---------------------------------------------------------------- strtod

Lower(c) ==
    CASE c = "I" -> "i" [] c = "N" -> "n" [] c = "F" -> "f" [] c = "A" -> "a"
      [] c = "T" -> "t" [] c = "Y" -> "y" [] OTHER -> c

\* whether s holds word w at index i, letters in either case
RECURSIVE MatchCI(_, _, _)
MatchCI(s, i, w) ==
    w = <<>> \/ (Lower(At(s, i)) = Head(w) /\ MatchCI(s, i + 1, Tail(w)))

\* the digits from index i on, onto mantissa m of exponent e; frac: after the point.
\* Digits past the eighth are dropped.  n counts the digits read.
RECURSIVE AccMant(_, _, _, _, _, _)
AccMant(s, i, m, e, frac, n) ==
    IF At(s, i) \in Digits
    THEN IF m < Pow10(7)
         THEN AccMant(s, i + 1, m * 10 + DigitVal(s[i]),
                      IF frac THEN e - 1 ELSE e, frac, n + 1)
         ELSE AccMant(s, i + 1, m, IF frac THEN e ELSE e + 1, frac, n + 1)
    ELSE [m |-> m, e |-> e, end |-> i, n |-> n]

\* the exponent digits from index i on, capped
RECURSIVE AccExp(_, _, _)
AccExp(s, i, x) ==
    IF At(s, i) \in Digits
    THEN AccExp(s, i + 1, IF x > 9999 THEN x ELSE x * 10 + DigitVal(s[i]))
    ELSE [x |-> x, end |-> i]

\* strtod, the value: mantissa fp = [m, e, end, n], exponent part xp = [x, end]
\* of sign xs.  ERANGE on overflow and on a result below the least normal double.
strtod_value(sg, fp, xs, xp) ==
    LET e   == fp.e + xs * xp.x
        ord == NumDigits(fp.m) + e
        rng == fp.m # 0 /\ (Above(fp.m, ord, DBL_MAX) \/ Below(fp.m, ord, DBL_MIN))
    IN  [v |-> Round(sg, fp.m, e), end |-> xp.end - 1, erange |-> rng]

\* strtod, the exponent part after mantissa fp: e or E, a sign, digits; it is
\* consumed only when a digit follows
strtod_exp(s, sg, fp) ==
    LET i2 == IF Lower(At(s, fp.end)) = "e" THEN fp.end + 1 ELSE 0
        i3 == IF At(s, i2) \in {"+", "-"} THEN i2 + 1 ELSE i2
    IN  IF i2 # 0 /\ At(s, i3) \in Digits
        THEN strtod_value(sg, fp, IF At(s, i2) = "-" THEN -1 ELSE 1, AccExp(s, i3, 0))
        ELSE strtod_value(sg, fp, 1, [x |-> 0, end |-> fp.end])

\* strtod, the decimal form after integer digits ip: a point and fraction digits
strtod_dec(s, sg, ip) ==
    IF At(s, ip.end) = "."
    THEN strtod_exp(s, sg, AccMant(s, ip.end + 1, ip.m, ip.e, TRUE, ip.n))
    ELSE strtod_exp(s, sg, ip)

\* strtod, from index i1 after white space and sign
strtod_at(s, sg, i1) ==
    IF MatchCI(s, i1, <<"i", "n", "f", "i", "n", "i", "t", "y">>)
    THEN [v |-> Inf(sg), end |-> i1 + 7, erange |-> FALSE]
    ELSE IF MatchCI(s, i1, <<"i", "n", "f">>)
    THEN [v |-> Inf(sg), end |-> i1 + 2, erange |-> FALSE]
    ELSE IF MatchCI(s, i1, <<"n", "a", "n">>)
    THEN [v |-> NaN, end |-> i1 + 2, erange |-> FALSE]
    ELSE IF At(s, i1) \notin Digits /\ ~(At(s, i1) = "." /\ At(s, i1 + 1) \in Digits)
    THEN [v |-> Zero, end |-> 0, erange |-> FALSE]
    ELSE strtod_dec(s, sg, AccMant(s, i1, 0, 0, FALSE, 0))

\* strtod, from index i0 after white space
strtod_sign(s, i0) ==
    strtod_at(s, IF At(s, i0) = "-" THEN -1 ELSE 1,
              IF At(s, i0) \in {"+", "-"} THEN i0 + 1 ELSE i0)

\* strtod(s, &end): [v, end, erange]; end is the count of characters consumed.
\* The hexadecimal form (0x...) and the NaN payload form nan(...) are not modelled:
\* no input of the model holds an x or a parenthesis after such a prefix.
strtod(s) == strtod_sign(s, SkipSpace(s, 1))

\* the rest of parse_double, on strtod's result r
parse_double_end(s, r) ==
    IF r.erange THEN [ok |-> FALSE, v |-> Zero]
    ELSE IF r.end = 0 THEN [ok |-> FALSE, v |-> Zero]
    ELSE IF At(s, SkipSet(s, r.end + 1, {" ", "\t"})) # "" THEN [ok |-> FALSE, v |-> Zero]
    ELSE [ok |-> TRUE, v |-> r.v]

\* parse_double(s, &v): [ok, v]
parse_double(s) ==
    IF s = <<>> THEN [ok |-> FALSE, v |-> Zero] ELSE parse_double_end(s, strtod(s))

\* ------------------------------------------------------- safety helpers

\* const double eps = 1e-12
eps == Fin(1, 1, -12)

\* the operand pair of one evaluation of num / den, as an arithmetic event
DivEvent(num, den, by) == [op |-> "/", num |-> num, den |-> den, by |-> by]

\* safe_divide with the test written <=: a denominator of exactly eps is refused
safe_divide_le(num, den) ==
    IF Le(fabs(den), eps)
    THEN [ok |-> FALSE, q |-> Zero, ev |-> <<>>]
    ELSE [ok |-> TRUE, q |-> Div(num, den),
          ev |-> <<DivEvent(num, den, "safe_divide")>>]

\* safe_divide(num, den, &out): [ok, q: *out, ev: the divisions evaluated]
safe_divide(num, den) ==
    IF Lt(fabs(den), eps)
    THEN [ok |-> FALSE, q |-> Zero, ev |-> <<>>]
    ELSE [ok |-> TRUE, q |-> Div(num, den),
          ev |-> <<DivEvent(num, den, "safe_divide")>>]

\* ------------------------------------------------------ formula variants
\* A variant's run, from its last input to its return, is
\* [out: the printf calls, rec: the log_printf calls, ops: arithmetic events].

\* a printf or log_printf call: the format and the arguments, each a double or IntArg(n)
printf(fmt, args) == [fmt |-> fmt, args |-> args]

\* an int argument n of a format
IntArg(n) == [k |-> "int", s |-> 1, m |-> n, e |-> 0]

\* a guard or safe_divide failure: the message, then return
Refuse(msg, ev) == [out |-> <<printf(msg, <<>>)>>, rec |-> <<>>, ops |-> ev]

\* a result: its printf calls, then its log_printf call
Answer(prints, fmt, args, ev) ==
    [out |-> prints, rec |-> <<printf(fmt, args)>>, ops |-> ev]

PI == Fin(1, 3142, -3)
Hundred == Fin(1, 1, 2)

\* menu_item_1, mode 1: Vout = Vin * R2 / (R1 + R2)
menu_item_1_Vout(Vin, R1, R2) ==
    LET d == safe_divide(R2, Add(R1, R2))
        Vout == Mul(Vin, d.q)
    IN  IF ~d.ok THEN Refuse("Error: R1 + R2 cannot be zero (or near zero).", d.ev)
        ELSE Answer(<<printf("Vout = %.6f V", <<Vout>>)>>,
                    "Voltage Divider (Vout)", <<Vin, R1, R2, Vout>>, d.ev)

\* menu_item_1, mode 2: Vin = Vout * (R1 + R2) / R2
menu_item_1_Vin(Vout, R1, R2) ==
    LET d == safe_divide(Add(R1, R2), R2)
        Vin_ans == Mul(Vout, d.q)
    IN  IF ~d.ok THEN Refuse("Error: R2 cannot be zero (or near zero).", d.ev)
        ELSE Answer(<<printf("Vin = %.6f V", <<Vin_ans>>)>>,
                    "Voltage Divider (Vin)", <<Vout, R1, R2, Vin_ans>>, d.ev)

\* menu_item_1, mode 3: R1 = R2 * (Vin/Vout - 1)
menu_item_1_R1(Vin, Vout, R2) ==
    LET d == safe_divide(Vin, Vout)
        R1_ans == Mul(R2, Sub(d.q, One))
    IN  IF ~d.ok THEN Refuse("Error: Vout cannot be zero (or near zero).", d.ev)
        ELSE Answer(<<printf("R1 = %.6f ohms", <<R1_ans>>)>>,
                    "Voltage Divider (R1)", <<Vin, Vout, R2, R1_ans>>, d.ev)

\* menu_item_1, mode 4: R2 = R1 * Vout / (Vin - Vout)
menu_item_1_R2(Vin, Vout, R1) ==
    LET d == safe_divide(Vout, Sub(Vin, Vout))
        R2_ans == Mul(R1, d.q)
    IN  IF ~d.ok
        THEN Refuse("Error: Vin must not equal Vout (denominator near zero).", d.ev)
        ELSE Answer(<<printf("R2 = %.6f ohms", <<R2_ans>>)>>,
                    "Voltage Divider (R2)", <<Vin, Vout, R1, R2_ans>>, d.ev)

\* menu_item_2, series total, after the loop: Rt = sum
menu_item_2_SeriesTotal(n, sum) ==
    Answer(<<printf("R_total(series) = %.6f ohms", <<sum>>)>>,
           "Resistors Series", <<IntArg(n), sum>>, <<>>)

\* menu_item_2, series missing, after the loop: R_missing = Rt - sum_known
menu_item_2_SeriesMissing(n, Rt, sum_known) ==
    LET missing == Sub(Rt, sum_known)
    IN  Answer(<<printf("Missing resistor = %.6f ohms", <<missing>>)>>,
               "Resistors Series Missing", <<IntArg(n), Rt, sum_known, missing>>, <<>>)

\* parallel mode 1 with the short-branch test on R1 alone
menu_item_2_Req_R1_only(R1, R2) ==
    LET d == safe_divide(Mul(R1, R2), Add(R1, R2))
    IN  IF Eq(R1, Zero)
        THEN Answer(<<printf("Req = 0 ohms (one branch is a short).", <<>>)>>,
                    "Resistors Parallel(2): -> Req=0 (short branch)", <<R1, R2>>, <<>>)
        ELSE IF ~d.ok THEN Refuse("Error: R1 + R2 cannot be zero (or near zero).", d.ev)
        ELSE Answer(<<printf("R_eq(parallel,2) = %.6f ohms", <<d.q>>)>>,
                    "Resistors Parallel(2): -> Req=%.6f ohm", <<R1, R2, d.q>>, d.ev)

\* menu_item_2, parallel mode 1: Req = (R1 * R2) / (R1 + R2), 0 on a short branch
menu_item_2_Req(R1, R2) ==
    LET d == safe_divide(Mul(R1, R2), Add(R1, R2))
    IN  IF Eq(R1, Zero) \/ Eq(R2, Zero)
        THEN Answer(<<printf("Req = 0 ohms (one branch is a short).", <<>>)>>,
                    "Resistors Parallel(2): -> Req=0 (short branch)", <<R1, R2>>, <<>>)
        ELSE IF ~d.ok THEN Refuse("Error: R1 + R2 cannot be zero (or near zero).", d.ev)
        ELSE Answer(<<printf("R_eq(parallel,2) = %.6f ohms", <<d.q>>)>>,
                    "Resistors Parallel(2): -> Req=%.6f ohm", <<R1, R2, d.q>>, d.ev)

\* menu_item_2, parallel mode 2: R1 = (Req * R2) / (R2 - Req)
menu_item_2_R1(Req, R2) ==
    LET d == safe_divide(Mul(Req, R2), Sub(R2, Req))
    IN  IF ~d.ok
        THEN Refuse("Error: R2 must not equal Req (denominator near zero).", d.ev)
        ELSE Answer(<<printf("R1 = %.6f ohms", <<d.q>>)>>,
                    "Resistors Parallel(2) solve R1", <<Req, R2, d.q>>, d.ev)

\* menu_item_2, parallel mode 3: R2 = (Req * R1) / (R1 - Req)
menu_item_2_R2(Req, R1) ==
    LET d == safe_divide(Mul(Req, R1), Sub(R1, Req))
    IN  IF ~d.ok
        THEN Refuse("Error: R1 must not equal Req (denominator near zero).", d.ev)
        ELSE Answer(<<printf("R2 = %.6f ohms", <<d.q>>)>>,
                    "Resistors Parallel(2) solve R2", <<Req, R1, d.q>>, d.ev)

\* menu_item_3, X_L mode 1: X_L = 2 pi f L
menu_item_3_XL(f, L) ==
    LET XL == Mul(Mul(Mul(Two, PI), f), L)
    IN  IF Le(f, Zero) \/ Lt(L, Zero) THEN Refuse("Error: f>0, L>=0.", <<>>)
        ELSE Answer(<<printf("X_L = %.6f ohms", <<XL>>)>>,
                    "AC Inductive Reactance", <<f, L, XL>>, <<>>)

\* menu_item_3, X_L mode 2: L = X_L / (2 pi f)
menu_item_3_L_from_XL(XL, f) ==
    LET d == safe_divide(XL, Mul(Mul(Two, PI), f))
    IN  IF Le(f, Zero) THEN Refuse("Error: f>0.", <<>>)
        ELSE IF ~d.ok THEN Refuse("Error: invalid denominator.", d.ev)
        ELSE Answer(<<printf("L = %.9f H", <<d.q>>)>>,
                    "AC Inductive Reactance solve L", <<XL, f, d.q>>, d.ev)

\* menu_item_3, X_L mode 3: f = X_L / (2 pi L)
menu_item_3_f_from_XL(XL, L) ==
    LET d == safe_divide(XL, Mul(Mul(Two, PI), L))
    IN  IF Le(L, Zero) THEN Refuse("Error: L>0.", <<>>)
        ELSE IF ~d.ok THEN Refuse("Error: invalid denominator.", d.ev)
        ELSE Answer(<<printf("f = %.6f Hz", <<d.q>>)>>,
                    "AC Inductive Reactance solve f", <<XL, L, d.q>>, d.ev)

\* menu_item_3, X_C modes 1..3: 1 / (2 pi a b), a and b both positive.
\* mode 1: X_C from f, C; mode 2: C from f, X_C; mode 3: f from C, X_C
menu_item_3_XC(mode, a, b) ==
    LET d == safe_divide(One, Mul(Mul(Mul(Two, PI), a), b))
        guard == CASE mode = 1 -> "Error: f>0, C>0."
                   [] mode = 2 -> "Error: f>0, X_C>0."
                   [] mode = 3 -> "Error: C>0, X_C>0."
        show  == CASE mode = 1 -> "X_C = %.6f ohms"
                   [] mode = 2 -> "C = %.9e F"
                   [] mode = 3 -> "f = %.6f Hz"
        rec   == CASE mode = 1 -> "AC Capacitive Reactance"
                   [] mode = 2 -> "AC Capacitive Reactance solve C"
                   [] mode = 3 -> "AC Capacitive Reactance solve f"
    IN  IF Le(a, Zero) \/ Le(b, Zero) THEN Refuse(guard, <<>>)
        ELSE IF ~d.ok THEN Refuse("Error: invalid denominator.", d.ev)
        ELSE Answer(<<printf(show, <<d.q>>)>>, rec,
                    IF mode = 1 THEN <<a, b, d.q>> ELSE <<b, a, d.q>>, d.ev)

\* menu_item_3, resonance mode 1: f0 = 1 / (2 pi sqrt(L C))
menu_item_3_f0(L, C) ==
    LET d == safe_divide(One, Mul(Mul(Two, PI), sqrt(Mul(L, C))))
    IN  IF Le(L, Zero) \/ Le(C, Zero) THEN Refuse("Error: L>0, C>0.", <<>>)
        ELSE IF ~d.ok THEN Refuse("Error: invalid denominator.", d.ev)
        ELSE Answer(<<printf("f0 = %.6f Hz", <<d.q>>)>>,
                    "Resonance", <<L, C, d.q>>, d.ev)

\* menu_item_3, resonance modes 2 and 3: 1 / ((2 pi f0)^2 x), x = C or L
menu_item_3_from_f0(mode, f0, x) ==
    LET w == Mul(Mul(Two, PI), f0)
        denom == Mul(Mul(w, w), x)
        d == safe_divide(One, denom)
    IN  IF Le(f0, Zero) \/ Le(x, Zero)
        THEN Refuse(IF mode = 2 THEN "Error: f0>0, C>0." ELSE "Error: f0>0, L>0.", <<>>)
        ELSE IF ~d.ok THEN Refuse("Error: invalid denominator.", d.ev)
        ELSE Answer(<<printf(IF mode = 2 THEN "L = %.9e H" ELSE "C = %.9e F", <<d.q>>)>>,
                    IF mode = 2 THEN "Resonance solve L" ELSE "Resonance solve C",
                    <<f0, x, d.q>>, d.ev)

\* the charge and discharge percentages at t: 100(1 - e^(-t/tau)), 100 e^(-t/tau),
\* with -t / tau divided directly
rc_percentages(t, tau) ==
    LET x == Div(Neg(t), tau)
    IN  [charge |-> Mul(Hundred, Sub(One, exp(x))),
         discharge |-> Mul(Hundred, exp(x)),
         ev |-> <<DivEvent(Neg(t), tau, "direct"), DivEvent(Neg(t), tau, "direct")>>]

\* menu_item_4, mode 1: tau = R C and the percentages at t
menu_item_4_forward(R, C, t) ==
    LET tau == Mul(R, C)
        p == rc_percentages(t, tau)
    IN  IF Le(R, Zero) \/ Le(C, Zero) THEN Refuse("Error: R>0, C>0.", <<>>)
        ELSE IF Lt(t, Zero) THEN Refuse("Error: t>=0.", <<>>)
        ELSE Answer(<<printf("Tau = %.6f s", <<tau>>),
                      printf("Charge at t: %.2f%%", <<p.charge>>),
                      printf("Discharge at t: %.2f%%", <<p.discharge>>)>>,
                    "RC Transient", <<R, C, t, tau, p.charge, p.discharge>>, p.ev)

\* the event of one log() call
LogEvent(x) == [op |-> "log", num |-> x, den |-> x, by |-> "direct"]

\* menu_item_4, mode 2: t = -tau ln(1 - p), p = charge% / 100
menu_item_4_t(R, C, pct) ==
    LET tau == Mul(R, C)
        a == Sub(One, Div(pct, Hundred))
        t_ans == Mul(Neg(tau), log(a))
    IN  IF Le(R, Zero) \/ Le(C, Zero) THEN Refuse("Error: R>0, C>0.", <<>>)
        ELSE IF Le(pct, Zero) \/ Ge(pct, Hundred)
             THEN Refuse("Error: % must be in (0,100).", <<>>)
        ELSE Answer(<<printf("t = %.6f s", <<t_ans>>)>>,
                    "RC solve t", <<R, C, pct, t_ans>>, <<LogEvent(a)>>)

\* menu_item_4, mode 3: the percentages at t from tau
menu_item_4_from_tau(tau, t) ==
    LET p == rc_percentages(t, tau)
    IN  IF Le(tau, Zero) THEN Refuse("Error: tau>0.", <<>>)
        ELSE IF Lt(t, Zero) THEN Refuse("Error: t>=0.", <<>>)
        ELSE Answer(<<printf("Charge at t: %.2f%%", <<p.charge>>),
                      printf("Discharge at t: %.2f%%", <<p.discharge>>)>>,
                    "RC from tau,t", <<tau, t, p.charge, p.discharge>>, p.ev)

\* menu_item_4, modes 4 and 5: tau = -t / ln(1 - p), then tau / x, x = R or C
menu_item_4_solve(mode, x, pct, t) ==
    LET ln_arg == Sub(One, Div(pct, Hundred))
        lg  == log(ln_arg)
        tau == Div(Neg(t), lg)
        d   == safe_divide(tau, x)
        ev  == <<LogEvent(ln_arg), DivEvent(Neg(t), lg, "direct")>>
    IN  IF Le(x, Zero) THEN Refuse(IF mode = 4 THEN "Error: R>0." ELSE "Error: C>0.", <<>>)
        ELSE IF Lt(t, Zero) THEN Refuse("Error: t>=0.", <<>>)
        ELSE IF Le(pct, Zero) \/ Ge(pct, Hundred)
             THEN Refuse("Error: % must be in (0,100).", <<>>)
        ELSE IF Le(ln_arg, Zero) THEN Refuse("Error: invalid ln() domain.", <<>>)
        ELSE IF ~d.ok THEN Refuse("Error: division by zero.", ev \o d.ev)
        ELSE Answer(<<printf(IF mode = 4 THEN "C = %.9e F (Tau = %.6f s)"
                                         ELSE "R = %.6f ohms (Tau = %.6f s)",
                             <<d.q, tau>>)>>,
                    IF mode = 4 THEN "RC solve C" ELSE "RC solve R",
                    <<x, pct, t, d.q, tau>>, ev \o d.ev)

\* menu_item_5, mode 1: P = V * I
menu_item_5_P(V, I) ==
    LET P == Mul(V, I)
    IN  Answer(<<printf("P = %.6f W", <<P>>)>>, "Power", <<V, I, P>>, <<>>)

\* menu_item_5, mode 2: V = P / I
menu_item_5_V(P, I) ==
    LET d == safe_divide(P, I)
    IN  IF ~d.ok THEN Refuse("Error: I cannot be zero (or near zero).", d.ev)
        ELSE Answer(<<printf("V = %.6f V", <<d.q>>)>>,
                    "Power solve V", <<P, I, d.q>>, d.ev)

\* menu_item_5, mode 3: I = P / V
menu_item_5_I(P, V) ==
    LET d == safe_divide(P, V)
    IN  IF ~d.ok THEN Refuse("Error: V cannot be zero (or near zero).", d.ev)
        ELSE Answer(<<printf("I = %.6f A", <<d.q>>)>>,
                    "Power solve I", <<P, V, d.q>>, d.ev)

\* ------------------------------------------------------------------ stdin
\* The lines the model's user types, as fgets returns them.  No line reaches the
\* size of a buffer (64 in main.c, 128 in funcs.c), so none is split.

\* what fgets returning NULL is written as
EOF == <<"EOF">>

\* typed at the main menu and at a Select: or count prompt
IntLines ==
    { <<"0", "\n">>,
      <<"1", "\n">>,
      <<"2", "\n">>,
      <<"3", "\n">>,
      <<"4", "\n">>,
      <<"5", "\n">>,
      <<"6", "\n">>,
      <<"7", "\n">>,
      <<"4", "2", "9", "4", "9", "6", "7", "2", "9", "7", "\n">>,
      <<"1", "x", "\n">>,
      <<"\n">>,
      <<"2", " ", "\n">>,
      <<"1", "\r", "\n">> }

\* typed at a value prompt
DblLines ==
    { <<"0", "\n">>,
      <<"1", "e", "-", "1", "3", "\n">>,
      <<"5", "0", "\n">>,
      <<"1", "0", "0", "\n">>,
      <<"-", "1", "\n">>,
      <<"n", "a", "n", "\n">>,
      <<"1", "e", "2", "0", "0", "\n">>,
      <<"1", "e", "-", "2", "0", "0", "\n">>,
      <<"5", "x", "\n">>,
      <<"\n">> }

\* typed at the back prompt
BackLines ==
    { <<"b", "\n">>,
      <<"B", "\n">>,
      <<"x", "\n">>,
      <<"b", " ", "\n">>,
      <<"\n">>,
      <<"b", "\r", "\n">> }

\* fgets(buf, size, stdin): what it can return with `avail` lines left
fgets(typed) == IF avail = 0 THEN {EOF} ELSE typed

\* --------------------------------------------------------- input helpers

\* the rest of get_choice, on strtol's result r
get_choice_end(buf, r) ==
    IF r.erange THEN -1
    ELSE IF r.end = 0 THEN -1
    ELSE IF At(buf, SkipSet(buf, r.end + 1, {" ", "\t"})) \notin {"\n", ""} THEN -1
    ELSE IntOfLong(r.neg, r.mag)

\* get_choice(): the value returned for what fgets gave
get_choice(buf, bits) ==
    IF buf = EOF THEN -1 ELSE get_choice_end(buf, strtol(buf, bits))

\* read_int, on parse_long's result p: store (int)v and return 1, or loop
read_int_end(p) ==
    IF p.ok THEN [fn |-> "read_int", st |-> "ok", v |-> IntOfLong(p.neg, p.mag), d |-> Zero]
    ELSE [fn |-> "read_int", st |-> "retry", v |-> 0, d |-> Zero]

\* one pass of read_int's loop: "eof" returns 0, "ok" stores (int)v and returns 1,
\* "retry" prints the re-prompt message and loops
read_int(buf, bits) ==
    IF buf = EOF THEN [fn |-> "read_int", st |-> "eof", v |-> 0, d |-> Zero]
    ELSE read_int_end(parse_long(trim_newline(buf), bits))

\* read_double, on parse_double's result p
read_double_end(p) ==
    IF p.ok THEN [fn |-> "read_double", st |-> "ok", v |-> 0, d |-> p.v]
    ELSE [fn |-> "read_double", st |-> "retry", v |-> 0, d |-> Zero]

\* read_double taking end-of-input for one more invalid line
read_double_eof_retry(buf) ==
    IF buf = EOF THEN [fn |-> "read_double", st |-> "retry", v |-> 0, d |-> Zero]
    ELSE read_double_end(parse_double(trim_newline(buf)))

\* one pass of read_double's loop
read_double(buf) ==
    IF buf = EOF THEN [fn |-> "read_double", st |-> "eof", v |-> 0, d |-> Zero]
    ELSE read_double_end(parse_double(trim_newline(buf)))

\* wait_back testing buf[0] alone
wait_back_first_char(buf) ==
    LET s == trim_newline(buf)
    IN  IF buf = EOF THEN "exit"
        ELSE IF At(s, 1) \in {"b", "B"} THEN "return"
        ELSE "again"

\* one pass of wait_back's loop: "exit" on end-of-input, "return" on b or B
wait_back(buf) ==
    LET s == trim_newline(buf)
    IN  IF buf = EOF THEN "exit"
        ELSE IF At(s, 1) \in {"b", "B"} /\ At(s, 2) = "" THEN "return"
        ELSE "again"

\* ------------------------------------------------------------ the prompts

\* print_menu()
MenuText == <<printf("====== EEE Helper CLI ======", <<>>), printf("Select: ", <<>>)>>

BackPrompt == <<printf("Enter 'b' to go back to the main menu: ", <<>>)>>

\* the heading a module prints once selections sl are made
Header(sl) ==
    CASE sl = <<1>> -> <<printf("--- Voltage Divider ---", <<>>)>>
      [] sl = <<2>> -> <<printf("--- Resistor Tools ---", <<>>)>>
      [] sl = <<3>> -> <<printf("--- AC Reactance & Resonance ---", <<>>)>>
      [] sl = <<4>> -> <<printf("--- RC Transient Calculator ---", <<>>)>>
      [] sl = <<5>> -> <<printf("--- Power Equation ---", <<>>)>>
      [] sl = <<2, 1>> -> <<printf("Series modes:", <<>>)>>
      [] sl = <<2, 2>> -> <<printf("Parallel(2) modes:", <<>>)>>
      [] Len(sl) = 2 /\ sl[1] = 3 -> <<printf("Solve for:", <<>>)>>
      [] OTHER -> <<>>

\* the prompt of the read_int that follows selections sl
SelectPrompt(sl) ==
    CASE sl = <<2, 1, 1>> -> <<printf("How many resistors? ", <<>>)>>
      [] sl = <<2, 1, 2>> -> <<printf("Total number of series resistors n: ", <<>>)>>
      [] OTHER -> <<printf("Select: ", <<>>)>>

\* the read_double prompts of a variant with a fixed list of inputs
ValuePrompts(sl) ==
    CASE sl = <<1, 1>> -> <<"Vin (V): ", "R1 (ohms): ", "R2 (ohms): ">>
      [] sl = <<1, 2>> -> <<"Vout (V): ", "R1 (ohms): ", "R2 (ohms): ">>
      [] sl = <<1, 3>> -> <<"Vin (V): ", "Vout (V): ", "R2 (ohms): ">>
      [] sl = <<1, 4>> -> <<"Vin (V): ", "Vout (V): ", "R1 (ohms): ">>
      [] sl = <<2, 2, 1>> -> <<"R1 (ohms): ", "R2 (ohms): ">>
      [] sl = <<2, 2, 2>> -> <<"Req (ohms): ", "R2  (ohms): ">>
      [] sl = <<2, 2, 3>> -> <<"Req (ohms): ", "R1  (ohms): ">>
      [] sl = <<3, 1, 1>> -> <<"f (Hz): ", "L (H): ">>
      [] sl = <<3, 1, 2>> -> <<"X_L (ohms): ", "f (Hz): ">>
      [] sl = <<3, 1, 3>> -> <<"X_L (ohms): ", "L (H): ">>
      [] sl = <<3, 2, 1>> -> <<"f (Hz): ", "C (F): ">>
      [] sl = <<3, 2, 2>> -> <<"X_C (ohms): ", "f (Hz): ">>
      [] sl = <<3, 2, 3>> -> <<"X_C (ohms): ", "C (F): ">>
      [] sl = <<3, 3, 1>> -> <<"L (H): ", "C (F): ">>
      [] sl = <<3, 3, 2>> -> <<"f0 (Hz): ", "C (F): ">>
      [] sl = <<3, 3, 3>> -> <<"f0 (Hz): ", "L (H): ">>
      [] sl = <<4, 1>> -> <<"R (ohms): ", "C (F): ", "t (s): ">>
      [] sl = <<4, 2>> -> <<"R (ohms): ", "C (F): ", "Target charge (%): ">>
      [] sl = <<4, 3>> -> <<"Tau (s): ", "t (s): ">>
      [] sl = <<4, 4>> -> <<"R (ohms): ", "Target charge (%): ", "t (s): ">>
      [] sl = <<4, 5>> -> <<"C (F): ", "Target charge (%): ", "t (s): ">>
      [] sl = <<5, 1>> -> <<"V (volts): ", "I (amps):  ">>
      [] sl = <<5, 2>> -> <<"P (watts): ", "I (amps):  ">>
      [] sl = <<5, 3>> -> <<"P (watts): ", "V (volts): ">>

\* whether selections sl are one of the series modes, count and loop index included
IsSeries(sl) == Len(sl) >= 3 /\ sl[1] = 2 /\ sl[2] = 1

\* whether the next read_double is one of a series loop, whose prompt is printed by
\* the loop body and not by read_line (its prompt argument is NULL)
LoopRead(sl, v) == IsSeries(sl) /\ ~(sl[3] = 2 /\ v = <<>>)

\* the prompt of the read_double that follows with selections sl and values v read
ValuePrompt(sl, v) ==
    IF IsSeries(sl)
    THEN IF sl[3] = 1 THEN <<printf("R%d (ohms): ", <<IntArg(sl[5])>>)>>
         ELSE IF v = <<>> THEN <<printf("Target Rt (ohms): ", <<>>)>>
         ELSE <<printf("Known R%d (ohms): ", <<IntArg(sl[5])>>)>>
    ELSE <<printf(ValuePrompts(sl)[Len(v) + 1], <<>>)>>

\* the formula of a variant with a fixed list of inputs, on its values v
Formula(sl, v) ==
    CASE sl = <<1, 1>> -> menu_item_1_Vout(v[1], v[2], v[3])
      [] sl = <<1, 2>> -> menu_item_1_Vin(v[1], v[2], v[3])
      [] sl = <<1, 3>> -> menu_item_1_R1(v[1], v[2], v[3])
      [] sl = <<1, 4>> -> menu_item_1_R2(v[1], v[2], v[3])
      [] sl = <<2, 2, 1>> -> menu_item_2_Req(v[1], v[2])
      [] sl = <<2, 2, 2>> -> menu_item_2_R1(v[1], v[2])
      [] sl = <<2, 2, 3>> -> menu_item_2_R2(v[1], v[2])
      [] sl = <<3, 1, 1>> -> menu_item_3_XL(v[1], v[2])
      [] sl = <<3, 1, 2>> -> menu_item_3_L_from_XL(v[1], v[2])
      [] sl = <<3, 1, 3>> -> menu_item_3_f_from_XL(v[1], v[2])
      [] sl = <<3, 2, 1>> -> menu_item_3_XC(1, v[1], v[2])
      [] sl = <<3, 2, 2>> -> menu_item_3_XC(2, v[2], v[1])
      [] sl = <<3, 2, 3>> -> menu_item_3_XC(3, v[2], v[1])
      [] sl = <<3, 3, 1>> -> menu_item_3_f0(v[1], v[2])
      [] sl = <<3, 3, 2>> -> menu_item_3_from_f0(2, v[1], v[2])
      [] sl = <<3, 3, 3>> -> menu_item_3_from_f0(3, v[1], v[2])
      [] sl = <<4, 1>> -> menu_item_4_forward(v[1], v[2], v[3])
      [] sl = <<4, 2>> -> menu_item_4_t(v[1], v[2], v[3])
      [] sl = <<4, 3>> -> menu_item_4_from_tau(v[1], v[2])
      [] sl = <<4, 4>> -> menu_item_4_solve(4, v[1], v[2], v[3])
      [] sl = <<4, 5>> -> menu_item_4_solve(5, v[1], v[2], v[3])
      [] sl = <<5, 1>> -> menu_item_5_P(v[1], v[2])
      [] sl = <<5, 2>> -> menu_item_5_V(v[1], v[2])
      [] sl = <<5, 3>> -> menu_item_5_I(v[1], v[2])

\* ------------------------------------------------------------ the program

\* lines on stdin when the program starts, at most
MaxInput == 5

\* the state before main() reads its first line
Idle ==
    /\ pc = "menu" /\ sel = <<>> /\ vals = <<>>
    /\ out = MenuText
    /\ status = -1
    /\ lastLine = <<>>
    /\ ret = [fn |-> "none", st |-> "none", v |-> 0, d |-> Zero]
    /\ ops = <<>>

\* the log file an earlier run has left: log_line opens it with "a" and never
\* removes it; here one record, of P = 50 * 50
OldLog == menu_item_5_P(Fin(1, 5, 1), Fin(1, 5, 1)).rec

\* a build with a long of 64 or of 32 bits, stdin holding up to MaxInput lines,
\* the log file absent or left by an earlier run
Init ==
    /\ longBits \in {32, 64}
    /\ arg = [t |-> "none"] /\ res = [fn |-> "none"]
    /\ avail \in 0 .. MaxInput
    /\ eee_log \in {<<>>, OldLog} /\ logFile = (eee_log # <<>>)
    /\ Idle

\* fgets has returned buf: a line is consumed unless stdin is at its end
Consume(buf) ==
    /\ lastLine' = buf
    /\ avail' = IF buf = EOF THEN avail ELSE avail - 1
    /\ UNCHANGED <<longBits, arg, res>>

\* log_line opening the file with "w": the record replaces what the file held
log_line_truncate(rec, w) ==
    /\ eee_log' = IF w /\ rec # <<>> THEN rec ELSE eee_log
    /\ logFile' = (logFile \/ (w /\ rec # <<>>))

\* log_line(line): fopen(LOG_FILE, "a") succeeds (w) or fails; a record per call
log_line(rec, w) ==
    /\ eee_log' = IF w THEN eee_log \o rec ELSE eee_log
    /\ logFile' = (logFile \/ (w /\ rec # <<>>))

LogLineEvent(w) ==
    [op |-> "log_line", num |-> Zero, den |-> Zero, by |-> IF w THEN "written" ELSE "failed"]

\* the return of a module that reports a failure of log_line on the terminal
ModuleReturn_report(msgs, rec, ev, w) ==
    /\ pc' = "back"
    /\ out' = msgs \o (IF rec # <<>> /\ ~w THEN <<printf("Could not write log.", <<>>)>>
                        ELSE <<>>) \o BackPrompt
    /\ log_line(rec, w)
    /\ ops' = ev \o [i \in 1 .. Len(rec) |-> LogLineEvent(w)]
    /\ status' = status

\* the running module returns to main(), which calls wait_back()
ModuleReturn(msgs, rec, ev, w) ==
    /\ pc' = "back"
    /\ out' = msgs \o BackPrompt
    /\ log_line(rec, w)
    /\ ops' = ev \o [i \in 1 .. Len(rec) |-> LogLineEvent(w)]
    /\ status' = status

\* view_log(): the lines of the file, or the notice that there is none
view_log ==
    IF ~logFile
    THEN <<printf("--- Saved Log ---", <<>>), printf("No saved calculations yet.", <<>>)>>
    ELSE <<printf("--- Saved Log ---", <<>>)>> \o eee_log

\* main()'s switch on the choice c, up to the next blocking read
Dispatch(c) ==
    /\ vals' = <<>>
    /\ IF c \in 1 .. 5
       THEN /\ pc' = "select" /\ sel' = <<c>>
            /\ out' = Header(<<c>>) \o SelectPrompt(<<c>>)
            /\ ops' = <<>>
            /\ UNCHANGED <<eee_log, logFile, status>>
       ELSE IF c = 6
       THEN /\ sel' = <<6>>
            /\ ModuleReturn(view_log, <<>>, <<>>, FALSE)
       ELSE IF c = 7
       THEN /\ pc' = "exit" /\ status' = 0 /\ sel' = <<>>
            /\ out' = <<printf("Bye!", <<>>)>>
            /\ ops' = <<>>
            /\ UNCHANGED <<eee_log, logFile>>
       ELSE /\ pc' = "menu" /\ sel' = <<>>
            /\ out' = <<printf("Invalid choice.", <<>>)>> \o MenuText
            /\ ops' = <<>>
            /\ UNCHANGED <<eee_log, logFile, status>>

\* main(): one pass of its loop, from get_choice() to the next blocking read
Menu ==
    /\ pc = "menu"
    /\ \E buf \in fgets(IntLines) :
         \E c \in {get_choice(buf, longBits)} :
             /\ Consume(buf)
             /\ ret' = [fn |-> "get_choice", st |-> IF buf = EOF THEN "eof" ELSE "ok",
                        v |-> c, d |-> Zero]
             /\ Dispatch(c)

\* how many options the menu reached by selections sl offers
Options(sl) ==
    CASE sl = <<1>> -> 4 [] sl = <<2>> -> 2 [] sl = <<2, 1>> -> 2 [] sl = <<2, 2>> -> 3
      [] sl = <<4>> -> 5 [] sl = <<5>> -> 3 [] OTHER -> 3

\* whether valid selections sl lead to another read_int (a sub-menu or a count)
LeadsToInt(sl) ==
    \/ Len(sl) = 2 /\ sl[1] \in {2, 3}
    \/ sl = <<2, 1, 1>> \/ sl = <<2, 1, 2>>

\* the message refusing count n of series mode m, <<>> when n passes
CountGuard(m, n) ==
    IF m = 1 /\ n <= 0 THEN <<printf("Count must be positive.", <<>>)>>
    ELSE IF m = 2 /\ n < 2 THEN <<printf("n must be at least 2.", <<>>)>>
    ELSE <<>>

\* what a module does with the int x its read_int stored
Selected(x) ==
    IF IsSeries(sel)
    THEN \* the count n of a series mode
         IF CountGuard(sel[3], x) # <<>>
         THEN /\ sel' = Append(sel, x) /\ vals' = <<>>
              /\ ModuleReturn(CountGuard(sel[3], x), <<>>, <<>>, FALSE)
         ELSE /\ pc' = "value"
              /\ sel' = IF sel[3] = 1 THEN sel \o <<x, 1>> ELSE Append(sel, x)
              /\ vals' = IF sel[3] = 1 THEN <<Zero>> ELSE <<>>
              /\ out' = ValuePrompt(sel', vals')
              /\ ops' = <<>>
              /\ UNCHANGED <<eee_log, logFile, status>>
    ELSE IF x \notin 1 .. Options(sel)
    THEN /\ sel' = Append(sel, x) /\ vals' = <<>>
         /\ ModuleReturn(<<printf("Invalid selection.", <<>>)>>, <<>>, <<>>, FALSE)
    ELSE /\ sel' = Append(sel, x) /\ vals' = <<>>
         /\ pc' = IF LeadsToInt(sel') THEN "select" ELSE "value"
         /\ out' = Header(sel') \o
                   (IF LeadsToInt(sel') THEN SelectPrompt(sel') ELSE ValuePrompt(sel', <<>>))
         /\ ops' = <<>>
         /\ UNCHANGED <<eee_log, logFile, status>>

\* a module's read_int: one pass of the loop and what the module does with the value
Select ==
    /\ pc = "select"
    /\ \E buf \in fgets(IntLines) :
         \E r \in {read_int(buf, longBits)} :
             /\ Consume(buf)
             /\ ret' = r
             /\ IF r.st = "eof"
                THEN /\ ModuleReturn(<<>>, <<>>, <<>>, FALSE)
                     /\ UNCHANGED <<sel, vals>>
                ELSE IF r.st = "retry"
                THEN /\ out' = <<printf("Invalid integer. Try again.", <<>>)>> \o SelectPrompt(sel)
                     /\ ops' = <<>>
                     /\ UNCHANGED <<pc, sel, vals, eee_log, logFile, status>>
                ELSE Selected(r.v)

\* the module's return after its formula's run f, log_line succeeding or not (w)
Finish(f, w) == ModuleReturn(f.out, f.rec, f.ops, w)

\* what a module does with the double x its read_double stored
Entered(x, w) ==
    IF IsSeries(sel) /\ sel[3] = 2 /\ vals = <<>>
    THEN \* Rt of the series-missing mode; the loop starts at i = 1
         /\ sel' = Append(sel, 1) /\ vals' = <<x, Zero>>
         /\ pc' = "value"
         /\ out' = ValuePrompt(sel', vals')
         /\ ops' = <<>>
         /\ UNCHANGED <<eee_log, logFile, status>>
    ELSE IF IsSeries(sel)
    THEN \* sum += r, ++i; after the last pass the result
         \E sum \in {Add(vals[Len(vals)], x)} :
             /\ vals' = [vals EXCEPT ![Len(vals)] = sum]
             /\ sel' = [sel EXCEPT ![5] = sel[5] + 1]
             /\ IF sel[5] >= (IF sel[3] = 1 THEN sel[4] ELSE sel[4] - 1)
                THEN IF sel[3] = 1
                     THEN Finish(menu_item_2_SeriesTotal(sel[4], sum), w)
                     ELSE Finish(menu_item_2_SeriesMissing(sel[4], vals[1], sum), w)
                ELSE /\ pc' = "value"
                     /\ out' = ValuePrompt(sel', vals')
                     /\ ops' = <<>>
                     /\ UNCHANGED <<eee_log, logFile, status>>
    ELSE IF Len(vals) + 1 < Len(ValuePrompts(sel))
    THEN /\ vals' = Append(vals, x) /\ pc' = "value"
         /\ out' = ValuePrompt(sel, vals')
         /\ ops' = <<>>
         /\ UNCHANGED <<sel, eee_log, logFile, status>>
    ELSE /\ vals' = Append(vals, x)
         /\ \E f \in {Formula(sel, Append(vals, x))} : Finish(f, w)
         /\ UNCHANGED sel

\* a module's read_double: one pass of the loop and what the module does with the value
Value ==
    /\ pc = "value"
    /\ \E buf \in fgets(DblLines), w \in BOOLEAN :
         \E r \in {read_double(buf)} :
             /\ Consume(buf)
             /\ ret' = r
             /\ IF r.st = "eof"
                THEN /\ ModuleReturn(<<>>, <<>>, <<>>, FALSE)
                     /\ UNCHANGED <<sel, vals>>
                ELSE IF r.st = "retry"
                THEN /\ out' = <<printf("Invalid number. Try again.", <<>>)>> \o
                                (IF LoopRead(sel, vals) THEN <<>> ELSE ValuePrompt(sel, vals))
                     /\ ops' = <<>>
                     /\ UNCHANGED <<pc, sel, vals, eee_log, logFile, status>>
                ELSE Entered(r.d, w)

\* wait_back(): one pass of its loop
Back ==
    /\ pc = "back"
    /\ \E buf \in fgets(BackLines) :
         \E b \in {wait_back(buf)} :
             /\ Consume(buf)
             /\ ret' = [fn |-> "wait_back", st |-> b, v |-> 0, d |-> Zero]
             /\ ops' = <<>>
             /\ UNCHANGED <<eee_log, logFile>>
             /\ IF b = "exit"
                THEN /\ pc' = "exit" /\ status' = 1
                     /\ out' = <<printf("Input error. Exiting.", <<>>)>>
                     /\ UNCHANGED <<sel, vals>>
                ELSE IF b = "return"
                THEN /\ pc' = "menu" /\ sel' = <<>> /\ vals' = <<>>
                     /\ out' = MenuText
                     /\ status' = status
                ELSE /\ out' = BackPrompt
                     /\ UNCHANGED <<pc, sel, vals, status>>

Next == Menu \/ Select \/ Value \/ Back

Spec == Init /\ [][Next]_vars

\* the process is never suspended for ever: a read returns, with a line or with
\* end-of-input, and the program takes its next step
SpecFair == Spec /\ WF_vars(Next)

\* ------------------------------------------------- the helpers on their own
\* parse_long, parse_double and safe_divide applied once to an argument drawn
\* from a bounded set: every string up to MaxLen over Chars and the Named
\* strings, and every pair of the Samples doubles.

\* the longest string that is enumerated
MaxLen == 3

Chars == {"1", "2", "a", "n", " ", "\t", ".", "-", "e"}

Strings == UNION {[1 .. k -> Chars] : k \in 0 .. MaxLen}

Named ==
    { <<"1", "2", "a", "b", "c">>,
      <<"3", ".", "4", "x", "y", "z">>,
      <<"a", "b", "c">>,
      <<"i", "n", "f">>,
      <<"I", "n", "f", "i", "n", "i", "t", "y">>,
      <<"-", "n", "a", "n", " ">>,
      <<"1", "e", "9", "9", "9">>,
      <<"1", "e", "-", "9", "9", "9">>,
      <<"2", "1", "4", "7", "4", "8", "3", "6", "4", "7">>,
      <<"2", "1", "4", "7", "4", "8", "3", "6", "4", "8">>,
      <<"-", "2", "1", "4", "7", "4", "8", "3", "6", "4", "8">>,
      <<"4", "2", "9", "4", "9", "6", "7", "2", "9", "7">>,
      <<"9", "2", "2", "3", "3", "7", "2", "0", "3", "6",
        "8", "5", "4", "7", "7", "5", "8", "0", "7">>,
      <<"9", "2", "2", "3", "3", "7", "2", "0", "3", "6",
        "8", "5", "4", "7", "7", "5", "8", "0", "8">>,
      <<"1", "0", "0", "0", "0", "0", "0", "0", "0", "0",
        "0", "0", "0", "0", "0", "0", "0", "0", "0", "0", "0">> }

Samples ==
    { Zero, Fin(1, 1, -13), Fin(-1, 1, -13), Fin(1, 9999, -16), eps, Neg(eps),
      Fin(1, 1001, -15), One, Fin(-1, 5, 1), Fin(1, 1, 200), Fin(1, 1, -200),
      NaN, Inf(1), Inf(-1) }

Args ==
    [t : {"str"}, s : Strings \cup Named] \cup [t : {"div"}, num : Samples, den : Samples]

NoResult == [fn |-> "none"]

InitFn ==
    /\ longBits \in {32, 64}
    /\ arg \in Args
    /\ res = NoResult
    /\ eee_log = <<>> /\ logFile = FALSE
    /\ avail = 0
    /\ Idle

Return(r) ==
    /\ res' = r
    /\ UNCHANGED <<longBits, arg, pc, sel, vals, out, eee_log, logFile, status, avail,
                   lastLine, ret, ops>>

CallParseLong ==
    /\ res = NoResult /\ arg.t = "str"
    /\ Return([fn |-> "parse_long", r |-> parse_long(arg.s, longBits)])

CallParseDouble ==
    /\ res = NoResult /\ arg.t = "str"
    /\ Return([fn |-> "parse_double", r |-> parse_double(arg.s)])

CallSafeDivide ==
    /\ res = NoResult /\ arg.t = "div"
    /\ Return([fn |-> "safe_divide", r |-> safe_divide(arg.num, arg.den)])

NextFn == CallParseLong \/ CallParseDouble \/ CallSafeDivide

SpecFn == InitFn /\ [][NextFn]_vars

\* ----------------------------------------------------------------- claims

HasDigit(s) == \E i \in 1 .. Len(s) : s[i] \in Digits

\* the characters a decimal numeral is written with, and the blanks allowed after it
NumeralChars == Digits \cup {"+", "-", ".", "e", "E"}
Blanks == {" ", "\t"}

\* a character that is neither part of a numeral nor a blank follows a leading digit
JunkAfterNumeral(s) ==
    /\ At(s, 1) \in Digits
    /\ \E i \in 2 .. Len(s) : s[i] \notin NumeralChars \cup Blanks

Parsed == res.fn \in {"parse_long", "parse_double"}

\* C1: parse_long and parse_double succeed only on a non-empty string that holds
\* a numeral; an empty or digit-free string fails, a string with another
\* character after a numeral fails, and "12", "12 " and "12<tab>" succeed.
C1_StrictParse ==
    Parsed =>
        /\ res.r.ok => arg.s # <<>> /\ HasDigit(arg.s)
        /\ ~HasDigit(arg.s) => ~res.r.ok
        /\ JunkAfterNumeral(arg.s) => ~res.r.ok
        /\ arg.s \in {<<"1", "2">>, <<"1", "2", " ">>, <<"1", "2", "\t">>} => res.r.ok

\* parse_double has accepted a string without a digit
C1_DigitFreeAccepted == Parsed /\ res.r.ok /\ ~HasDigit(arg.s)

\* whether the numeral that line buf starts with has a value outside the range of int
OutsideInt(buf) ==
    LET r == strtol(buf, 64)
    IN  r.end # 0 /\ (r.erange \/ ~InIntRange(r.neg, r.mag))

\* C2: a line whose numeric value lies outside the range of int is never
\* delivered as a value: read_int does not return success on it and get_choice
\* returns its failure value -1.
C2_OutOfRangeRefused ==
    (lastLine # EOF /\ lastLine # <<>> /\ OutsideInt(lastLine)) =>
        /\ ret.fn = "read_int" => ret.st # "ok"
        /\ ret.fn = "get_choice" => ret.v = -1

\* read_int or get_choice has delivered a value for a line outside the range of int
C2_WrappedDelivered ==
    /\ lastLine # EOF /\ lastLine # <<>> /\ OutsideInt(lastLine)
    /\ \/ ret.fn = "read_int" /\ ret.st = "ok"
       \/ ret.fn = "get_choice" /\ ret.v # -1

\* the choice a main-menu line denotes: the value of a decimal numeral that is
\* alone on the line, and -1 for anything else (no line, no numeral, other text
\* after it) and for a numeral outside the range of int
LineChoice(buf) ==
    LET r == strtol(buf, 64)
    IN  IF buf = EOF \/ r.end = 0 THEN -1
        ELSE IF At(buf, SkipSet(buf, r.end + 1, Blanks)) \notin {"\n", ""} THEN -1
        ELSE IF r.erange \/ ~InIntRange(r.neg, r.mag) THEN -1
        ELSE IntOfLong(r.neg, r.mag)

\* what main() has done for choice n, from the menu
Dispatched(n) ==
    IF n \in 1 .. 5
    THEN pc = "select" /\ sel = <<n>> /\ out = Header(<<n>>) \o SelectPrompt(<<n>>)
    ELSE IF n = 6
    THEN pc = "back" /\ sel = <<6>> /\ out = view_log \o BackPrompt
    ELSE IF n = 7
    THEN pc = "exit" /\ status = 0 /\ out = <<printf("Bye!", <<>>)>>
    ELSE /\ pc = "menu" /\ sel = <<>> /\ status = -1
         /\ out = <<printf("Invalid choice.", <<>>)>> \o MenuText

\* C3: at the main menu a line denoting 1..5 starts that module, 6 shows the
\* log, 7 prints "Bye!" and exits with status 0; any other integer and any line
\* that is no integer prints "Invalid choice." and redisplays the menu, running
\* no module and not entering the back-prompt.
C3_MenuDispatch == ret.fn = "get_choice" => Dispatched(LineChoice(lastLine))

\* a line denoting an integer outside 1..7 has started a module
C3_OtherIntegerRunsModule ==
    ret.fn = "get_choice" /\ LineChoice(lastLine) = -1 /\ pc = "select"

InModule == pc \in {"select", "value"}

\* the step leaves no trace of a calculation: no log record, no arithmetic, no exit
Silent == eee_log' = eee_log /\ logFile' = logFile /\ ops' = <<>> /\ status' = -1

\* C4, as claimed: end-of-input met inside a module aborts it silently and the
\* program is back at the main menu; the process exits on end-of-input only at
\* the back-prompt.
C4_EofInModuleRecovers ==
    [][/\ (InModule /\ lastLine' = EOF) => (Silent /\ pc' = "menu" /\ out' = MenuText)
       /\ (status = -1 /\ status' > 0) => (pc = "back" /\ lastLine' = EOF)]_vars

\* C4, amended: end-of-input met inside a module aborts it silently (only the
\* back-prompt is printed, nothing is logged, the values read stay as they are)
\* and the program enters the back-prompt, not the main menu; the process exits
\* on end-of-input only at the back-prompt, with status 1, and so it does on the
\* read that follows an end-of-input met inside a module.
C4_EofInModuleAborts ==
    [][/\ (InModule /\ lastLine' = EOF) =>
              (Silent /\ pc' = "back" /\ out' = BackPrompt /\ sel' = sel /\ vals' = vals)
       /\ (status = -1 /\ status' > 0) => (pc = "back" /\ lastLine' = EOF)
       /\ (pc = "back" /\ (lastLine = EOF \/ lastLine' = EOF)) =>
              (pc' = "exit" /\ status' = 1 /\ lastLine' = EOF /\
               out' = <<printf("Input error. Exiting.", <<>>)>>)]_vars

\* a module has been aborted by end-of-input after reading a value
C4_ModuleAbortedAtEof ==
    /\ pc = "back" /\ lastLine = EOF /\ out = BackPrompt
    /\ ret.fn = "read_double" /\ ret.st = "eof" /\ vals # <<>>

\* whether v is the value the strict parser accepts for line buf
AcceptedInt(buf, bits, v) ==
    LET p == parse_long(trim_newline(buf), bits)
    IN  p.ok /\ InIntRange(p.neg, p.mag) /\ v = IntOfLong(p.neg, p.mag)

AcceptedDouble(buf, v) ==
    LET p == parse_double(trim_newline(buf))
    IN  p.ok /\ v = p.v

Refused(buf, bits) ==
    IF pc = "select" THEN ~parse_long(trim_newline(buf), bits).ok
    ELSE ~parse_double(trim_newline(buf)).ok

\* one pass of read_int's or read_double's loop, as claimed
ReadPass ==
    /\ ret'.fn = (IF pc = "select" THEN "read_int" ELSE "read_double")
    /\ lastLine' # EOF => avail' = avail - 1
    /\ ret'.st = "retry" <=> (lastLine' # EOF /\ Refused(lastLine', longBits))
    /\ ret'.st = "retry" =>
           /\ pc' = pc /\ sel' = sel /\ vals' = vals /\ status' = -1
           /\ out'[1].fmt \in {"Invalid integer. Try again.", "Invalid number. Try again."}
    /\ ret'.st = "ok" =>
           IF pc = "select" THEN AcceptedInt(lastLine', longBits, ret'.v)
           ELSE AcceptedDouble(lastLine', ret'.d)
    /\ ret'.st = "eof" <=> lastLine' = EOF
    /\ ret'.st = "eof" => (out' = BackPrompt /\ sel' = sel /\ vals' = vals)

\* C5: each pass of read_int and read_double reads one line; a line the parser
\* refuses is answered by the re-prompt message and another read, and never
\* reaches the caller; success returns the value the strict parser accepted for
\* the last line read; failure is returned only at end-of-input, with no error
\* text and the caller's variables as they were; and on a finite input the loop
\* ends.
C5_ReadLoop ==
    /\ [][InModule => ReadPass]_vars
    /\ (ret.st = "retry") ~> (ret.st \in {"ok", "eof"})

\* read_int has returned success with a value that is not the one on the line
C5_OtherValueReturned ==
    /\ ret.fn = "read_int" /\ ret.st = "ok"
    /\ parse_long(trim_newline(lastLine), longBits).ok
    /\ OutsideInt(lastLine)

\* the line is exactly b or B once its terminator is stripped
IsBack(buf) == buf # EOF /\ trim_newline(buf) \in {<<"b">>, <<"B">>}

\* C6: when a module selected by 1..6 returns, with a result, an error or
\* aborted, the program is at the back-prompt; there a line that is exactly b
\* or B redisplays the main menu, any other line prompts again, and
\* end-of-input ends the process with a nonzero status; the menu is redisplayed
\* after a module by no other way.
C6_BackPrompt ==
    [][/\ (InModule /\ pc' # pc) => pc' \in {"select", "value", "back"}
       /\ (pc = "menu" /\ ret'.v = 6) => (pc' = "back" /\ out' = view_log \o BackPrompt)
       /\ (pc # "back" /\ pc' = "back") => out'[Len(out')] = BackPrompt[1]
       /\ (pc = "back" /\ IsBack(lastLine')) => (pc' = "menu" /\ out' = MenuText)
       /\ (pc = "back" /\ lastLine' # EOF /\ ~IsBack(lastLine')) =>
              (pc' = "back" /\ out' = BackPrompt /\ status' = -1)
       /\ (pc = "back" /\ lastLine' = EOF) => (pc' = "exit" /\ status' > 0)
       /\ (pc # "menu" /\ pc' = "menu") => (pc = "back" /\ IsBack(lastLine'))]_vars

\* a line of b, carriage return, newline has led from the back-prompt to the menu
C6_BackToMenu ==
    pc = "menu" /\ ret.fn = "wait_back" /\ lastLine = <<"b", "\r", "\n">> /\ out = MenuText

\* C7: safe_divide refuses every denominator of magnitude below 1e-12, whatever
\* the numerator, leaving the quotient 0 and dividing nothing; for every
\* denominator of magnitude 1e-12 or more it succeeds with the quotient num / den.
C7_SafeDivide ==
    res.fn = "safe_divide" =>
        /\ Lt(fabs(arg.den), eps) =>
               (~res.r.ok /\ res.r.q = Zero /\ res.r.ev = <<>>)
        /\ Ge(fabs(arg.den), eps) =>
               /\ res.r.ok /\ res.r.q = Div(arg.num, arg.den)
               /\ res.r.ev = <<DivEvent(arg.num, arg.den, "safe_divide")>>

\* safe_divide has divided by a denominator of exactly -1e-12
C7_AtEpsilon ==
    res.fn = "safe_divide" /\ arg.den = Neg(eps) /\ arg.num = One /\ res.r.ok
        /\ res.r.q = Fin(-1, 1, 12)

\* C8: every division by a denominator that comes from the user's input is made
\* by safe_divide, none by a / of the formula itself, so none has a denominator
\* of magnitude below 1e-12; a safe_divide failure prints the formula's error
\* message and ends that calculation alone.
C8_DivisionsBySafeDivide ==
    \A i \in 1 .. Len(ops) :
        ops[i].op = "/" => (ops[i].by = "safe_divide" /\ ~Lt(fabs(ops[i].den), eps))

\* an RC variant has divided -t by a tau below 1e-12 with the / operator
C8_DirectDivision ==
    /\ pc = "back" /\ sel = <<4, 3>>
    /\ \E i \in 1 .. Len(ops) :
           ops[i].op = "/" /\ ops[i].by = "direct" /\ Lt(fabs(ops[i].den), eps)

\* the RC variants that take a target charge percentage, once all values are read
PercentVariant == pc = "back" /\ sel \in {<<4, 2>>, <<4, 4>>, <<4, 5>>} /\ Len(vals) = 3

\* the percentage entered
pct == IF sel = <<4, 2>> THEN vals[3] ELSE vals[2]

DomainErrors ==
    {"Error: % must be in (0,100).", "Error: R>0, C>0.", "Error: R>0.", "Error: C>0.",
     "Error: t>=0."}

\* C9: in the RC variants that take a charge percentage, a percentage that is not
\* strictly inside (0, 100) is reported as a domain violation and nothing is
\* computed, printed as a result or logged; the logarithm is taken only of a
\* strictly positive 1 - percent/100.
C9_PercentGuard ==
    PercentVariant =>
        /\ ~(Lt(Zero, pct) /\ Lt(pct, Hundred)) =>
               /\ Len(out) = 2 /\ out[1].fmt \in DomainErrors
               /\ ops = <<>>
        /\ \A i \in 1 .. Len(ops) : ops[i].op = "log" => Lt(Zero, ops[i].num)

\* a percentage that is no number has passed the guard and its logarithm was taken
C9_NaNPercentComputed ==
    /\ PercentVariant /\ IsNaN(pct)
    /\ \E i \in 1 .. Len(ops) : ops[i].op = "log" /\ IsNaN(ops[i].num)

\* the log_printf call of the last step, when log_line has written it
Logged(fmt, args) ==
    /\ \E i \in 1 .. Len(ops) : ops[i].op = "log_line"
    /\ \A i \in 1 .. Len(ops) :
           (ops[i].op = "log_line" /\ ops[i].by = "written") =>
               (eee_log # <<>> /\ eee_log[Len(eee_log)] = printf(fmt, args))

\* C10: when the parallel-2 Req variant returns, an R1 or R2 of exactly zero gives 0 ohms without a
\* call of safe_divide and its own log record; when neither is zero the variant
\* calls safe_divide(R1*R2, R1+R2) and prints and logs R1*R2/(R1+R2), or, with
\* |R1+R2| below 1e-12, prints the "R1 + R2 cannot be zero" error and logs nothing.
C10_ParallelReq ==
    (pc = "back" /\ ret.fn = "read_double" /\ sel = <<2, 2, 1>> /\ Len(vals) = 2) =>
        LET R1 == vals[1]
            R2 == vals[2]
        IN  IF Eq(R1, Zero) \/ Eq(R2, Zero)
            THEN /\ out = <<printf("Req = 0 ohms (one branch is a short).", <<>>)>> \o BackPrompt
                 /\ \A i \in 1 .. Len(ops) : ops[i].op # "/"
                 /\ Logged("Resistors Parallel(2): -> Req=0 (short branch)", <<R1, R2>>)
            ELSE IF Lt(fabs(Add(R1, R2)), eps)
            THEN /\ out = <<printf("Error: R1 + R2 cannot be zero (or near zero).", <<>>)>>
                           \o BackPrompt
                 /\ ops = <<>>
            ELSE /\ out = <<printf("R_eq(parallel,2) = %.6f ohms",
                                   <<Div(Mul(R1, R2), Add(R1, R2))>>)>> \o BackPrompt
                 /\ ops[1] = DivEvent(Mul(R1, R2), Add(R1, R2), "safe_divide")
                 /\ Logged("Resistors Parallel(2): -> Req=%.6f ohm",
                           <<R1, R2, Div(Mul(R1, R2), Add(R1, R2))>>)

\* the short branch was taken for R1 = 50, R2 = 0 and its record is in the log
C10_ShortBranchLogged ==
    /\ pc = "back" /\ sel = <<2, 2, 1>> /\ vals = <<Fin(1, 5, 1), Zero>>
    /\ eee_log = <<printf("Resistors Parallel(2): -> Req=0 (short branch)", vals)>>

\* ------------------------------------------------------------------- C11

Gt(x, y) == Lt(y, x)

\* the domain of a variant's inputs v, as its guard message states it
GuardsPass(sl, v) ==
    CASE sl = <<3, 1, 1>> -> Gt(v[1], Zero) /\ Ge(v[2], Zero)
      [] sl \in {<<3, 1, 2>>, <<3, 1, 3>>} -> Gt(v[2], Zero)
      [] Len(sl) = 3 /\ sl[1] = 3 /\ sl[2] \in {2, 3} -> Gt(v[1], Zero) /\ Gt(v[2], Zero)
      [] sl = <<4, 1>> -> Gt(v[1], Zero) /\ Gt(v[2], Zero) /\ Ge(v[3], Zero)
      [] sl = <<4, 2>> -> /\ Gt(v[1], Zero) /\ Gt(v[2], Zero)
                          /\ Gt(v[3], Zero) /\ Lt(v[3], Hundred)
      [] sl = <<4, 3>> -> Gt(v[1], Zero) /\ Ge(v[2], Zero)
      [] sl \in {<<4, 4>>, <<4, 5>>} ->
             /\ Gt(v[1], Zero) /\ Ge(v[3], Zero)
             /\ Gt(v[2], Zero) /\ Lt(v[2], Hundred)
             /\ Gt(Sub(One, Div(v[2], Hundred)), Zero)
      [] OTHER -> TRUE

\* the denominator a variant hands to safe_divide on inputs v, One when it
\* calls safe_divide for no division
Denominator(sl, v) ==
    CASE sl = <<1, 1>> -> Add(v[2], v[3])
      [] sl = <<1, 2>> -> v[3]
      [] sl = <<1, 3>> -> v[2]
      [] sl = <<1, 4>> -> Sub(v[1], v[2])
      [] sl = <<2, 2, 1>> -> IF Eq(v[1], Zero) \/ Eq(v[2], Zero) THEN One ELSE Add(v[1], v[2])
      [] sl \in {<<2, 2, 2>>, <<2, 2, 3>>} -> Sub(v[2], v[1])
      [] sl \in {<<3, 1, 2>>, <<3, 1, 3>>} -> Mul(Mul(Two, PI), v[2])
      [] sl = <<3, 2, 1>> -> Mul(Mul(Mul(Two, PI), v[1]), v[2])
      [] sl \in {<<3, 2, 2>>, <<3, 2, 3>>} -> Mul(Mul(Mul(Two, PI), v[2]), v[1])
      [] sl = <<3, 3, 1>> -> Mul(Mul(Two, PI), sqrt(Mul(v[1], v[2])))
      [] sl \in {<<3, 3, 2>>, <<3, 3, 3>>} ->
             Mul(Mul(Mul(Mul(Two, PI), v[1]), Mul(Mul(Two, PI), v[1])), v[2])
      [] sl \in {<<4, 4>>, <<4, 5>>} -> v[1]
      [] sl \in {<<5, 2>>, <<5, 3>>} -> v[2]
      [] OTHER -> One

ChecksPass(sl, v) == ~Lt(fabs(Denominator(sl, v)), eps)

\* the messages of a guard or safe_divide failure
ErrorTexts ==
    { "Error: R1 + R2 cannot be zero (or near zero).", "Error: R2 cannot be zero (or near zero).",
      "Error: Vout cannot be zero (or near zero).",
      "Error: Vin must not equal Vout (denominator near zero).",
      "Count must be positive.", "n must be at least 2.",
      "Error: R2 must not equal Req (denominator near zero).",
      "Error: R1 must not equal Req (denominator near zero).",
      "Error: f>0, L>=0.", "Error: f>0.", "Error: L>0.", "Error: invalid denominator.",
      "Error: f>0, C>0.", "Error: f>0, X_C>0.", "Error: C>0, X_C>0.", "Error: L>0, C>0.",
      "Error: f0>0, C>0.", "Error: f0>0, L>0.", "Error: R>0, C>0.", "Error: t>=0.",
      "Error: % must be in (0,100).", "Error: tau>0.", "Error: R>0.", "Error: C>0.",
      "Error: invalid ln() domain.", "Error: division by zero.",
      "Error: I cannot be zero (or near zero).", "Error: V cannot be zero (or near zero)." }

LogCalls(evs) == {i \in 1 .. Len(evs) : evs[i].op = "log_line"}

\* the step prints a result and calls log_line once, and the program is at the
\* back-prompt
ResultStep ==
    /\ pc' = "back" /\ status' = -1
    /\ Len(out') >= 2 /\ out'[Len(out')] = BackPrompt[1]
    /\ \A i \in 1 .. Len(out') - 1 : out'[i].fmt \notin ErrorTexts
    /\ Cardinality(LogCalls(ops')) = 1
    /\ Len(eee_log') \in {Len(eee_log), Len(eee_log) + 1}

\* the step prints one error message, evaluates and logs nothing, and the
\* program is at the back-prompt
ErrorStep ==
    /\ pc' = "back" /\ status' = -1
    /\ Len(out') = 2 /\ out'[1].fmt \in ErrorTexts /\ out'[2] = BackPrompt[1]
    /\ LogCalls(ops') = {}
    /\ eee_log' = eee_log /\ logFile' = logFile

\* the step handles the last input of a variant: the count of a series mode that
\* its guard refuses, or the last value
LastInput ==
    /\ ret'.st = "ok"
    /\ \/ pc = "select" /\ IsSeries(sel) /\ pc' = "back"
       \/ pc = "value" /\ pc' = "back"

\* C11: a variant prints a result and writes a log record only when all of its
\* inputs passed its domain guards and its safe_divide check; on a guard or
\* safe_divide failure it prints an error message, no result and no log record,
\* and the program goes on to the back-prompt and from there to the main menu
\* without exiting.
C11_GuardedResults ==
    [][/\ LastInput =>
              IF pc = "select" THEN ErrorStep
              ELSE IF GuardsPass(sel, vals') /\ ChecksPass(sel, vals')
                   THEN ResultStep ELSE ErrorStep
       /\ (pc = "select" /\ IsSeries(sel) /\ Len(sel) = 3 /\ ret'.st = "ok" /\ pc' = "value")
              => CountGuard(sel[3], ret'.v) = <<>>
       /\ (pc = "back" /\ pc' # "back" /\ lastLine' # EOF) => (pc' = "menu" /\ status' = -1)
      ]_vars

\* X_L has been printed and logged for a frequency that is not a number
C11_ResultDespiteGuard ==
    /\ pc = "back" /\ sel = <<3, 1, 1>> /\ vals = <<NaN, Fin(1, 5, 1)>>
    /\ eee_log # <<>> /\ eee_log[1].fmt = "AC Inductive Reactance"
    /\ out[1].fmt = "X_L = %.6f ohms"

\* ------------------------------------------------------------------- C12

\* the arguments of the printf or log_printf calls cs are finite numbers
FiniteArgs(cs) ==
    \A i \in 1 .. Len(cs) : \A j \in 1 .. Len(cs[i].args) :
        cs[i].args[j].k \in {"fin", "int"}

\* C12: no formula path displays or logs a NaN or an infinity: every quantity
\* printed by the last step and every quantity of every log record is finite.
C12_FiniteResults == FiniteArgs(out) /\ FiniteArgs(eee_log)

\* P = V * I has been printed as an infinity for V = I = 1e200
C12_InfinitePower ==
    /\ pc = "back" /\ sel = <<5, 1>> /\ vals = <<Fin(1, 1, 200), Fin(1, 1, 200)>>
    /\ out[1] = printf("P = %.6f W", <<Inf(1)>>)

\* ------------------------------------------------------------------- C13

\* the log after the step is the log before it with records added at its end
Appended ==
    /\ Len(eee_log') >= Len(eee_log)
    /\ SubSeq(eee_log', 1, Len(eee_log)) = eee_log

\* the step is main()'s call of view_log
Viewing == pc = "menu" /\ ret'.fn = "get_choice" /\ ret'.v = 6

\* view_log leaves the file as it is and reports that there is none when it is absent
ViewOnly ==
    /\ eee_log' = eee_log /\ logFile' = logFile
    /\ ~logFile => out' = <<printf("--- Saved Log ---", <<>>),
                            printf("No saved calculations yet.", <<>>)>> \o BackPrompt

\* the step completes a calculation: its last value is read and a result printed
Completed ==
    /\ pc = "value" /\ pc' = "back" /\ ret'.st = "ok"
    /\ out'[1].fmt \notin ErrorTexts

\* fopen succeeded in the step's log_line call
Written == \E i \in LogCalls(ops') : ops'[i].by = "written"

\* C13, as claimed: the log only grows at its end, view_log does not modify it
\* and reports "No saved calculations yet." when the file is absent, and every
\* completed calculation appends exactly one record.
C13_AppendOnly ==
    [][/\ Appended
       /\ Viewing => ViewOnly
       /\ Completed => Len(eee_log') = Len(eee_log) + 1]_vars

\* C13, amended: the log only grows at its end, view_log does not modify it and
\* reports "No saved calculations yet." when the file is absent, and a completed
\* calculation appends exactly one record when the file can be opened for append
\* and none when it cannot; no other step changes the log.
C13_AppendOnlyWhenOpened ==
    [][/\ Appended
       /\ Viewing => (ViewOnly /\ (logFile => out' = <<printf("--- Saved Log ---", <<>>)>>
                                                      \o eee_log \o BackPrompt))
       /\ Completed => IF Written THEN Len(eee_log') = Len(eee_log) + 1 /\ logFile'
                       ELSE eee_log' = eee_log /\ logFile' = logFile
       /\ ~Completed => (eee_log' = eee_log /\ logFile' = logFile)]_vars

\* a record has been appended after the one an earlier run left
C13_RecordAppended ==
    /\ pc = "back" /\ sel = <<1, 1>> /\ Len(eee_log) = 2
    /\ eee_log[1] = OldLog[1] /\ eee_log[2].fmt = "Voltage Divider (Vout)"

\* ------------------------------------------------------------------- C14

\* the step called log_line
LogCalled == LogCalls(ops') # {}

\* the value read_double stores for the line the step read
Typed == parse_double(trim_newline(lastLine')).v

\* the values of the variant once the line is read, and its result: neither
\* depends on the log or on what fopen does
ValuesThen ==
    IF IsSeries(sel) THEN [vals EXCEPT ![Len(vals)] = Add(vals[Len(vals)], Typed)]
    ELSE Append(vals, Typed)

ResultThen ==
    IF IsSeries(sel)
    THEN IF sel[3] = 1 THEN menu_item_2_SeriesTotal(sel[4], ValuesThen[1])
         ELSE menu_item_2_SeriesMissing(sel[4], ValuesThen[1], ValuesThen[2])
    ELSE Formula(sel, ValuesThen)

\* C14: a failure of log_line is ignored: a step that calls log_line prints the
\* result of its variant and the back-prompt and leaves the program at the
\* back-prompt, not exited, with the same values, whether fopen succeeded or
\* failed; only the log differs, by the one record.  A step that does not call
\* log_line leaves the log alone, and view_log, the one reader of the log,
\* prints its listing or notice between the same heading and back-prompt and
\* returns to the same place.
C14_LogFailureIgnored ==
    [][/\ LogCalled =>
              /\ pc = "value" /\ pc' = "back" /\ status' = status
              /\ avail' = avail - 1 /\ ret' = read_double(lastLine')
              /\ vals' = ValuesThen
              /\ out' = ResultThen.out \o BackPrompt
              /\ eee_log' = IF Written THEN eee_log \o ResultThen.rec ELSE eee_log
       /\ ~LogCalled => eee_log' = eee_log
       /\ Viewing => /\ pc' = "back" /\ status' = status /\ sel' = <<6>> /\ vals' = <<>>
                     /\ out'[1] = printf("--- Saved Log ---", <<>>)
                     /\ out'[Len(out')] = BackPrompt[1]]_vars

\* a result has been printed although log_line could not open the file
C14_ResultWithoutRecord ==
    /\ pc = "back" /\ sel = <<5, 2>> /\ vals = <<Fin(1, 5, 1), Fin(1, 1, 2)>>
    /\ out = menu_item_5_V(Fin(1, 5, 1), Fin(1, 1, 2)).out \o BackPrompt
    /\ ops[Len(ops)].op = "log_line" /\ ops[Len(ops)].by = "failed"
    /\ eee_log = <<>>

\* ------------------------------------------------------------------- C15

\* C15: once stdin is exhausted the program terminates, wherever it is: at the
\* main menu, at a prompt of a module or at the back-prompt.
C15_TerminatesAtEof == (avail = 0) ~> (pc = "exit")

\* end-of-input at the main menu has been answered with "Invalid choice." and
\* the menu again, and main() is about to call get_choice once more: the pass
\* of its loop repeats in this state for ever, the process has not stopped
C15_InvalidChoiceAtEof ==
    /\ pc = "menu" /\ avail = 0 /\ lastLine = EOF
    /\ ret.fn = "get_choice" /\ ret.st = "eof" /\ ret.v = -1
    /\ out = <<printf("Invalid choice.", <<>>)>> \o MenuText
    /\ status = -1 /\ ENABLED Menu

====
